---- MODULE Spec2Model ----
(***************************************************************************)
(* A model of gainhound's re-encode pipeline (scripts/reencode_gain.py)    *)
(* and of the advisory lock of the Plex analyze script                     *)
(* (scripts/force_plex_analyze.py).                                        *)
(*                                                                         *)
(* Text is modelled at the level of characters: a string is a sequence of  *)
(* one-character strings, a file is the sequence of its bytes.  Gains are  *)
(* kept in hundredths of a dB (5.0 dB is 500).                             *)
(***************************************************************************)
EXTENDS Integers, Sequences, FiniteSets, TLC

\* ------------------------------------------------------------------ bounds

\* Longest initial ledger of the pipeline's runs, in lines.
MaxLines == 2
\* Longest ledger handed to the selection and to the ledger update, in lines.
MaxText == 3
\* Runs of reencode_gain.py started in one behaviour.
MaxRuns == 2
\* Environment faults (tool failures, I/O errors, kills, signals) in one behaviour.
MaxFaults == 2
\* Tracks of the Plex library walked by one analyze process.
MaxTracks == 2
\* Analyze processes started in one behaviour.
MaxAnalyze == 3

\* ------------------------------------------------------------ text helpers

TAB == "\t"
NL == "\n"
\* A byte that is not valid UTF-8 (what errors="ignore" drops on reading).
BADBYTE == "<ff>"

\* A name of the media tree that holds no file.
NoFile == [gen |-> -1, whole |-> FALSE, ape |-> FALSE]
\* The bytes of a text file that does not exist.
Absent == <<"ENOENT">>
\* The name of a file that has none (unlinked, or never opened).
NoName == <<>>

RECURSIVE Flatten(_)
\* The concatenation of a sequence of strings (successive write() calls).
Flatten(ss) == IF ss = <<>> THEN <<>> ELSE Head(ss) \o Flatten(Tail(ss))

\* open(..., encoding="utf-8", errors="ignore").read(): undecodable bytes vanish.
decode(bytes) == SelectSeq(bytes, LAMBDA b : b # BADBYTE)

\* Index of the first occurrence of c in s, 0 when there is none.
find(s, c) ==
    IF \E k \in 1..Len(s) : s[k] = c
    THEN CHOOSE k \in 1..Len(s) : s[k] = c /\ \A j \in 1..(k - 1) : s[j] # c
    ELSE 0

\* Index of the last occurrence of c in s, 0 when there is none.
rfind(s, c) ==
    IF \E k \in 1..Len(s) : s[k] = c
    THEN CHOOSE k \in 1..Len(s) : s[k] = c /\ \A j \in (k + 1)..Len(s) : s[j] # c
    ELSE 0

RECURSIVE split(_, _)
\* str.split(sep): the fields between the separators, always at least one.
split(s, sep) ==
    LET k == find(s, sep)
    IN  IF k = 0 THEN <<s>>
        ELSE <<SubSeq(s, 1, k - 1)>> \o split(SubSeq(s, k + 1, Len(s)), sep)

RECURSIVE rstrip(_, _)
\* str.rstrip(c): every trailing c removed.
rstrip(s, c) ==
    IF s # <<>> /\ s[Len(s)] = c THEN rstrip(SubSeq(s, 1, Len(s) - 1), c) ELSE s

RECURSIVE readlines(_)
\* The lines of a text, each keeping its line end; the last may lack one.
readlines(text) ==
    LET k == find(text, NL)
    IN  IF text = <<>> THEN <<>>
        ELSE IF k = 0 THEN <<text>>
        ELSE <<SubSeq(text, 1, k)>> \o readlines(SubSeq(text, k + 1, Len(text)))

\* str.lower() on the letters the model's paths use.
lowerChar(c) ==
    CASE c = "M" -> "m"
      [] c = "P" -> "p"
      [] c = "A" -> "a"
      [] c = "B" -> "b"
      [] OTHER -> c

lower(s) == [k \in 1..Len(s) |-> lowerChar(s[k])]

endswith(s, suffix) ==
    /\ Len(suffix) <= Len(s)
    /\ SubSeq(s, Len(s) - Len(suffix) + 1, Len(s)) = suffix

startswith(s, prefix) ==
    /\ Len(prefix) <= Len(s)
    /\ SubSeq(s, 1, Len(prefix)) = prefix

Digits == {"0", "1", "2", "3", "4", "5", "6", "7", "8", "9"}

digitValue(c) ==
    CASE c = "0" -> 0 [] c = "1" -> 1 [] c = "2" -> 2 [] c = "3" -> 3 [] c = "4" -> 4
      [] c = "5" -> 5 [] c = "6" -> 6 [] c = "7" -> 7 [] c = "8" -> 8 [] c = "9" -> 9

RECURSIVE decimal(_)
\* The number a string of digits denotes (0 for the empty string).
decimal(ds) ==
    IF ds = <<>> THEN 0
    ELSE 10 * decimal(SubSeq(ds, 1, Len(ds) - 1)) + digitValue(ds[Len(ds)])

\* float(s), in hundredths: [sign] digits [. digits]; anything else is a
\* ValueError.  (The model's gain strings carry at most two decimals.)
float(s) ==
    LET neg == s # <<>> /\ s[1] = "-"
        pos == s # <<>> /\ s[1] = "+"
        body == IF neg \/ pos THEN Tail(s) ELSE s
        parts == split(body, ".")
        ip == parts[1]
        fp == IF Len(parts) = 2 THEN parts[2] ELSE <<>>
        wellFormed ==
            /\ Len(parts) <= 2
            /\ \A k \in 1..Len(ip) : ip[k] \in Digits
            /\ \A k \in 1..Len(fp) : fp[k] \in Digits
            /\ Len(ip) + Len(fp) > 0
            /\ Len(fp) <= 2
        mag == 100 * decimal(ip)
               + (IF Len(fp) = 1 THEN 10 * decimal(fp) ELSE decimal(fp))
    IN  IF wellFormed
        THEN [ok |-> TRUE, val |-> IF neg THEN 0 - mag ELSE mag]
        ELSE [ok |-> FALSE, val |-> 0]

abs(x) == IF x < 0 THEN 0 - x ELSE x

\* os.path.dirname / os.path.basename
dirname(p) == LET k == rfind(p, "/") IN IF k <= 1 THEN SubSeq(p, 1, k) ELSE SubSeq(p, 1, k - 1)

basename(p) == SubSeq(p, rfind(p, "/") + 1, Len(p))

\* ---------------------------------------------------------------- the world

PROC_LIST == <<"/", "d", "/", "p", ".", "l">>
MUSIC_DIR == <<"/", "m">>
SEP == <<"/">>
MP3 == <<".", "m", "p", "3">>

PathA == <<"/", "m", "/", "a", ".", "m", "p", "3">>
PathB == <<"/", "m", "/", "b", ".", "M", "P", "3">>
\* A ledger entry pointing outside the media root.
PathX == <<"/", "x", "/", "e", ".", "m", "p", "3">>
\* Not an MP3.
PathO == <<"/", "m", "/", "c", ".", "o", "g">>
\* A symbolic link under the media root to PathX.
PathL == <<"/", "m", "/", "l", ".", "m", "p", "3">>


\* os.path.realpath: the only symbolic link of the model's tree is PathL.
realpath(p) == IF p = PathL THEN PathX ELSE p

MediaPaths == {PathA, PathB, PathX}

\* main, line 301: out_tmp = f"{path}.reenc.tmp.mp3"
TmpSuffix == <<".", "r", ".", "m", "p", "3">>
out_tmp(path) == path \o TmpSuffix

\* safe_replace, lines 100-101: the sibling temp of the cross-device fallback.
alt_tmp(dst_final) ==
    LET dst_dir == IF dirname(dst_final) = <<>> THEN <<".">> ELSE dirname(dst_final)
    IN  dst_dir \o SEP \o <<".", "s", ".">> \o basename(dst_final) \o <<".", "t">>

Files == MediaPaths \cup {out_tmp(p) : p \in MediaPaths} \cup {alt_tmp(p) : p \in MediaPaths}

\* A file's content: the number of encodings it went through, whether it is
\* completely written, and whether it carries mp3gain's APE tags.
Original == [gen |-> 0, whole |-> TRUE, ape |-> TRUE]

\* ------------------------------------------------------------- ledger text

Line(ts, path, gain) == ts \o <<TAB>> \o path \o <<TAB>> \o gain \o <<NL>>

LineA == Line(<<"t">>, PathA, <<"6", ".", "2">>)
LineB == Line(<<"t">>, PathB, <<"-", "7">>)
LineX == Line(<<"t">>, PathX, <<"9">>)
\* Two fields only.
LineM == <<"j", TAB, "k", NL>>
\* Gain exactly at the default threshold, and just below it.
LineEq == Line(<<"t">>, PathA, <<"5", ".", "0">>)
LineLo == Line(<<"t">>, PathB, <<"4", ".", "9", "9">>)
\* Not an MP3, however large the gain.
LineO == Line(<<"t">>, PathO, <<"8">>)
\* A gain that is no number.
LineNaN == Line(<<"t">>, PathA, <<"x">>)
\* Four fields.
Line4 == Line(<<"t">>, PathA, <<"6", TAB, "u">>)
\* A malformed line holding an undecodable byte.
LineBad == <<"j", BADBYTE, TAB, "k", NL>>

RECURSIVE SeqsUpTo(_, _)
\* The sequences of at most n elements of S.
SeqsUpTo(S, n) ==
    IF n = 0 THEN {<<>>}
    ELSE LET shorter == SeqsUpTo(S, n - 1)
         IN  shorter \cup {<<x>> \o s : x \in S, s \in {t \in shorter : Len(t) = n - 1}}

\* ----------------------------------------------------- reencode_gain.py, pure

RECURSIVE keptLinesInverted(_, _)
\* keptLines, with the comparison of the path inverted.
keptLinesInverted(lines, song_path) ==
    IF lines = <<>> THEN <<>>
    ELSE LET line == Head(lines)
             parts == split(rstrip(line, NL), TAB)
             drop == IF Len(parts) # 3 THEN FALSE ELSE parts[2] # song_path
         IN  (IF drop THEN <<>> ELSE <<line>>) \o keptLinesInverted(Tail(lines), song_path)

RECURSIVE keptLines(_, _)
\* remove_from_processed_list, lines 129-138: the lines written back.
keptLines(lines, song_path) ==
    IF lines = <<>> THEN <<>>
    ELSE LET line == Head(lines)
             parts == split(rstrip(line, NL), TAB)
             drop == IF Len(parts) # 3 THEN FALSE ELSE parts[2] = song_path
         IN  (IF drop THEN <<>> ELSE <<line>>) \o keptLines(Tail(lines), song_path)

RECURSIVE scanLinesStrict(_, _)
\* scanLines, with > in place of >=.
scanLinesStrict(lines, threshold) ==
    IF lines = <<>> THEN <<>>
    ELSE LET parts == split(rstrip(Head(lines), NL), TAB)
             gain == float(parts[3])
             take == IF Len(parts) # 3 THEN FALSE
                     ELSE IF ~gain.ok THEN FALSE
                     ELSE abs(gain.val) > threshold /\ endswith(lower(parts[2]), MP3)
         IN  (IF take THEN <<[path |-> parts[2], gain |-> gain.val]>> ELSE <<>>)
             \o scanLinesStrict(Tail(lines), threshold)

RECURSIVE scanLines(_, _)
\* list_candidates_from_processed, lines 182-192: the loop over the lines.
scanLines(lines, threshold) ==
    IF lines = <<>> THEN <<>>
    ELSE LET parts == split(rstrip(Head(lines), NL), TAB)
             gain == float(parts[3])
             take == IF Len(parts) # 3 THEN FALSE
                     ELSE IF ~gain.ok THEN FALSE
                     ELSE abs(gain.val) >= threshold /\ endswith(lower(parts[2]), MP3)
         IN  (IF take THEN <<[path |-> parts[2], gain |-> gain.val]>> ELSE <<>>)
             \o scanLines(Tail(lines), threshold)

list_candidates_from_processed(file, threshold) ==
    IF file = Absent THEN <<>> ELSE scanLines(readlines(decode(file)), threshold)

\* main, lines 266-268: the optional cap (0 stands for None).
capped(all_candidates, max_files) ==
    IF max_files = 0 THEN all_candidates
    ELSE SubSeq(all_candidates, 1, IF max_files < Len(all_candidates) THEN max_files ELSE Len(all_candidates))

\* main, lines 292-294: the candidate lies under MUSIC_DIR.
insideMusicDir(path) ==
    LET norm_music == realpath(MUSIC_DIR)
        norm_path == realpath(path)
    IN  startswith(norm_path, norm_music \o SEP) \/ norm_path = norm_music


\* -------------------------------------------------------------------- state

VARIABLES
    \* /data/processed.list: its bytes, or Absent.
    ledger,
    \* The media tree: each path of Files to its content, or to NoFile.
    fs,
    \* The environment of reencode_gain.py (lines 54-69); MAX_FILES_INT 0 is None.
    GAIN_THRESHOLD, MAX_FILES_INT, DRY_RUN,
    \* Whether the scheduler starts a run while another is still running, and
    \* how many runs it has started.
    overlap, started,
    \* Whether renaming a temp output over its target fails with EXDEV.
    cross_device,
    \* Per run of reencode_gain.py: where it is, and main()'s locals.
    pc, candidates, grand_total, done, ok, fail,
    \* Per run: the process's exit status (-1 while it runs), and what ended
    \* main(): "returned", "uncaught" (an exception), "sigint", "sigkill".
    rc, how,
    \* Per run, inside remove_from_processed_list: the lines read, the temp file.
    lines, out,
    \* Per run: the name under which the file its ffmpeg writes is linked, and
    \* whether the source it reads was complete when it opened it.
    writing, intact,
    \* Per run: how many times the post-hook was triggered, what came of it
    \* the last time, and the status the process ended with (-1 until then).
    posthook, hook, exited_with,
    \* Per run: what became of each candidate the loop has finished with, and
    \* whether the ledger update of the current one logged its warning (line 144).
    outcome, warned,
    \* Environment faults injected so far.
    faults,
    \* force_plex_analyze.py, per process: where it is, its _lock_file, whether
    \* its open file holds the flock, its exit status, main()'s track counters.
    apc, lock_file, flocked, arc, total, ok_tracks, fail_tracks,
    \* How many analyze processes have been started.
    astarted

vars == <<ledger, fs, GAIN_THRESHOLD, MAX_FILES_INT, DRY_RUN, overlap, started, cross_device,
          pc, candidates, grand_total, done, ok, fail, rc, lines, out,
          how, warned, writing, intact, posthook, hook, exited_with, outcome, faults,
          apc, lock_file, flocked, arc, total, ok_tracks, fail_tracks, astarted>>

config == <<GAIN_THRESHOLD, MAX_FILES_INT, DRY_RUN, overlap, cross_device>>
locals == <<candidates, grand_total, done, ok, fail>>
rmvars == <<lines, out, warned>>
hookvars == <<posthook, hook, exited_with>>
analyze == <<apc, lock_file, flocked, arc, total, ok_tracks, fail_tracks, astarted>>
reencode == <<ledger, fs, config, started, pc, locals, rc, how, rmvars, writing,
              intact, hookvars, outcome>>

\* The processes of reencode_gain.py that can be alive at once.
Runs == {1, 2}
Procs == 1..2

\* A run that has been started and has not ended.
Running(r) == pc[r] \notin {"off", "exited", "killed"}

Budget == faults < MaxFaults
\* The outcomes of a step: the regular ones, and the faults while the budget lasts.
Outcomes(regular, faulty) == regular \cup (IF Budget THEN faulty ELSE {})
Spend(o, regular) == faults' = faults + (IF o \in regular THEN 0 ELSE 1)

\* isDryRun, with the switch ignored.
isDryRunNever == FALSE

\* main, lines 260, 286 and 342: the dry-run switch.
isDryRun == DRY_RUN = "1"

\* The candidate the loop is at (main, line 284).
cur(r) == candidates[r][done[r]]

\* --------------------------------------------------------- the file system

\* os.replace(src, dst) on the tree.
os_replace(tree, src, dst) == [tree EXCEPT ![dst] = tree[src], ![src] = NoFile]

\* os.remove(path) on the tree.
os_remove(tree, path) == [tree EXCEPT ![path] = NoFile]

\* Where the files being written by ffmpeg are linked after os.replace(src, dst):
\* an open file follows its name's rename, and loses its name when replaced.
renamed(w, src, dst) ==
    [q \in Runs |-> IF w[q] = src THEN dst ELSE IF w[q] = dst THEN NoName ELSE w[q]]

unlinked(w, path) == [q \in Runs |-> IF w[q] = path THEN NoName ELSE w[q]]

\* main, lines 308-312 and 325-329: remove the temp output if it is there;
\* a failing os.remove is swallowed.
cleanup(tree, tmp, removes) ==
    IF tree[tmp] # NoFile /\ removes THEN os_remove(tree, tmp) ELSE tree


\* -------------------------------------------------- reencode_gain.py, a run

\* __main__, line 358: the scheduler starts the process.
StartRun(r) ==
    /\ started < MaxRuns
    /\ ~Running(r)
    /\ \A q \in Runs : q < r => Running(q)
    /\ IF overlap THEN TRUE ELSE \A q \in Runs : ~Running(q)
    /\ started' = started + 1
    /\ pc' = [pc EXCEPT ![r] = "main"]
    /\ rc' = [rc EXCEPT ![r] = -1]
    /\ how' = [how EXCEPT ![r] = "running"]
    /\ posthook' = [posthook EXCEPT ![r] = 0]
    /\ hook' = [hook EXCEPT ![r] = "none"]
    /\ exited_with' = [exited_with EXCEPT ![r] = -1]
    /\ UNCHANGED <<ledger, fs, config, locals, rmvars, writing, intact,
                   outcome, faults, analyze>>

\* main, lines 257-282: load and filter the ledger, cap the batch.
Main(r) ==
    /\ pc[r] = "main"
    /\ LET all_candidates == list_candidates_from_processed(ledger, GAIN_THRESHOLD)
           batch == capped(all_candidates, MAX_FILES_INT)
       IN  /\ candidates' = [candidates EXCEPT ![r] = batch]
           /\ grand_total' = [grand_total EXCEPT ![r] = Len(all_candidates)]
           /\ pc' = [pc EXCEPT ![r] = IF Len(batch) = 0 THEN "atexit" ELSE "for"]
           /\ rc' = [rc EXCEPT ![r] = IF Len(batch) = 0 THEN 0 ELSE @]
           /\ how' = [how EXCEPT ![r] = IF Len(batch) = 0 THEN "returned" ELSE @]
    /\ done' = [done EXCEPT ![r] = 0]
    /\ ok' = [ok EXCEPT ![r] = 0]
    /\ fail' = [fail EXCEPT ![r] = 0]
    /\ UNCHANGED <<ledger, fs, config, rmvars, writing, intact, hookvars, outcome,
                   faults, started, analyze>>

\* main, lines 284-301: the head of the loop, the dry-run listing, the safety check.
For(r) ==
    /\ pc[r] = "for"
    /\ IF done[r] = Len(candidates[r])
       THEN /\ pc' = [pc EXCEPT ![r] = "summary"]
            /\ UNCHANGED <<done, outcome>>
       ELSE LET path == candidates[r][done[r] + 1].path
            IN  /\ done' = [done EXCEPT ![r] = @ + 1]
                /\ IF isDryRun
                   THEN /\ outcome' = [outcome EXCEPT ![r] = Append(@, "dry")]
                        /\ UNCHANGED pc
                   ELSE IF ~insideMusicDir(path)
                   THEN /\ outcome' = [outcome EXCEPT ![r] = Append(@, "skipped")]
                        /\ UNCHANGED pc
                   ELSE /\ pc' = [pc EXCEPT ![r] = "ffmpeg"]
                        /\ UNCHANGED outcome
    /\ UNCHANGED <<ledger, fs, config, candidates, grand_total, ok, fail, rc, how, rmvars,
                   writing, intact, hookvars, faults, started, analyze>>

\* Failed, with the failure ending the batch instead of going on.
FailedAborts(r, tree, w, what, removes) ==
    /\ fail' = [fail EXCEPT ![r] = @ + 1]
    /\ outcome' = [outcome EXCEPT ![r] = Append(@, what)]
    /\ fs' = cleanup(tree, out_tmp(cur(r).path), removes)
    /\ writing' = IF tree[out_tmp(cur(r).path)] # NoFile /\ removes
                  THEN unlinked(w, out_tmp(cur(r).path)) ELSE w
    /\ pc' = [pc EXCEPT ![r] = "summary"]
    /\ UNCHANGED <<ok, rc, how>>

\* main, lines 304-313 and 321-330: the candidate failed; the temp output is
\* removed when it is there and the removal works; on to the next candidate.
Failed(r, tree, w, what, removes) ==
    /\ fail' = [fail EXCEPT ![r] = @ + 1]
    /\ outcome' = [outcome EXCEPT ![r] = Append(@, what)]
    /\ fs' = cleanup(tree, out_tmp(cur(r).path), removes)
    /\ writing' = IF tree[out_tmp(cur(r).path)] # NoFile /\ removes
                  THEN unlinked(w, out_tmp(cur(r).path)) ELSE w
    /\ pc' = [pc EXCEPT ![r] = "for"]
    /\ UNCHANGED <<ok, rc, how>>

\* An exception nothing catches leaves main(): the interpreter prints the
\* traceback and exits with status 1 (the atexit handlers still run).
Uncaught(r) ==
    /\ rc' = [rc EXCEPT ![r] = 1]
    /\ how' = [how EXCEPT ![r] = "uncaught"]
    /\ pc' = [pc EXCEPT ![r] = "atexit"]
    /\ UNCHANGED <<ok, fail, outcome>>

\* ffmpeg_reencode, lines 158-168: ffmpeg -y is launched and opens its output.
FfmpegStart(r) ==
    /\ pc[r] = "ffmpeg"
    /\ LET path == cur(r).path
           regular == IF fs[path] = NoFile THEN {"refused"} ELSE {"writing"}
       IN  \E o \in Outcomes(regular, {"oserror", "refused", "refused_stuck"}) :
             /\ Spend(o, regular)
             /\ CASE o = "writing" ->
                       /\ fs' = [fs EXCEPT ![out_tmp(path)] =
                                    [gen |-> fs[path].gen + 1, whole |-> FALSE,
                                     ape |-> fs[path].ape]]
                       /\ writing' = [writing EXCEPT ![r] = out_tmp(path)]
                       /\ intact' = [intact EXCEPT ![r] = fs[path].whole]
                       /\ pc' = [pc EXCEPT ![r] = "ffmpeg_run"]
                       /\ UNCHANGED <<ok, fail, rc, how, outcome>>
                  [] o = "oserror" ->
                       /\ Uncaught(r)
                       /\ UNCHANGED <<fs, writing, intact>>
                  [] OTHER ->
                       /\ Failed(r, fs, writing, "encfail", o = "refused")
                       /\ UNCHANGED intact
    /\ UNCHANGED <<ledger, config, candidates, grand_total, done, rmvars, hookvars,
                   started, analyze>>

\* ffmpeg_reencode, lines 168-171, and main, lines 304-313: ffmpeg exits.
FfmpegExit(r) ==
    /\ pc[r] = "ffmpeg_run"
    /\ \E o \in Outcomes({"zero"}, {"nonzero", "nonzero_stuck"}) :
         /\ Spend(o, {"zero"})
         /\ LET name == writing[r]
                others == name # NoName /\ \E q \in Runs \ {r} : writing[q] = name
                w == [writing EXCEPT ![r] = NoName]
            IN  IF o = "zero"
                THEN /\ fs' = IF name = NoName THEN fs
                              ELSE [fs EXCEPT ![name].whole = intact[r] /\ ~others]
                     /\ writing' = w
                     /\ pc' = [pc EXCEPT ![r] = "strip"]
                     /\ UNCHANGED <<ok, fail, rc, how, outcome>>
                ELSE Failed(r, fs, w, "encfail", o = "nonzero")
    /\ UNCHANGED <<ledger, config, candidates, grand_total, done, rmvars, intact,
                   hookvars, started, analyze>>

\* strip_mp3gain_tags, lines 108-113, called at main, line 316: the exit
\* status of mp3gain is never looked at; failing to launch it raises.
Strip(r) ==
    /\ pc[r] = "strip"
    /\ LET tmp == out_tmp(cur(r).path)
           regular == IF fs[tmp] = NoFile THEN {"nonzero"} ELSE {"stripped"}
       IN  \E o \in Outcomes(regular, {"nonzero", "oserror"}) :
             /\ Spend(o, regular)
             /\ IF o = "oserror"
                THEN /\ Uncaught(r)
                     /\ UNCHANGED fs
                ELSE /\ fs' = IF o = "stripped" THEN [fs EXCEPT ![tmp].ape = FALSE] ELSE fs
                     /\ pc' = [pc EXCEPT ![r] = "replace"]
                     /\ UNCHANGED <<ok, fail, rc, how, outcome>>
    /\ UNCHANGED <<ledger, config, candidates, grand_total, done, rmvars, writing,
                   intact, hookvars, started, analyze>>


\* safe_replace, lines 96-99, called at main, line 320: the primary rename.
Replace(r) ==
    /\ pc[r] = "replace"
    /\ LET path == cur(r).path
           tmp == out_tmp(path)
           regular == IF fs[tmp] = NoFile THEN {"oserror"}
                      ELSE IF cross_device THEN {"EXDEV"} ELSE {"renamed"}
       IN  \E o \in Outcomes(regular, {"oserror", "oserror_stuck"}) :
             /\ Spend(o, regular)
             /\ CASE o = "renamed" ->
                       /\ fs' = os_replace(fs, tmp, path)
                       /\ writing' = renamed(writing, tmp, path)
                       /\ pc' = [pc EXCEPT ![r] = "rm_read"]
                       /\ UNCHANGED <<ok, fail, rc, how, outcome>>
                  [] o = "EXDEV" ->
                       /\ pc' = [pc EXCEPT ![r] = "copy2"]
                       /\ UNCHANGED <<fs, writing, ok, fail, rc, how, outcome>>
                  [] OTHER -> Failed(r, fs, writing, "replfail", o = "oserror")
    /\ UNCHANGED <<ledger, config, candidates, grand_total, done, rmvars, intact,
                   hookvars, started, analyze>>

\* safe_replace, line 102: shutil.copy2 creates the sibling temp and starts
\* to fill it.
Copy2Start(r) ==
    /\ pc[r] = "copy2"
    /\ LET path == cur(r).path
           src == fs[out_tmp(path)]
       IN  IF src = NoFile
           THEN /\ Failed(r, fs, writing, "replfail", TRUE)
           ELSE /\ fs' = [fs EXCEPT ![alt_tmp(path)] = [src EXCEPT !.whole = FALSE]]
                /\ writing' = unlinked(writing, alt_tmp(path))
                /\ pc' = [pc EXCEPT ![r] = "copy2_run"]
                /\ UNCHANGED <<ok, fail, rc, how, outcome>>
    /\ UNCHANGED <<ledger, config, candidates, grand_total, done, rmvars, intact,
                   hookvars, faults, started, analyze>>

\* safe_replace, line 102: shutil.copy2 ends, with the copy complete or in an
\* error that leaves what it had written.
Copy2End(r) ==
    /\ pc[r] = "copy2_run"
    /\ LET path == cur(r).path
       IN  \E o \in Outcomes({"copied"}, {"oserror", "oserror_stuck"}) :
             /\ Spend(o, {"copied"})
             /\ IF o = "copied"
                THEN /\ fs' = [fs EXCEPT ![alt_tmp(path)] =
                                  IF fs[out_tmp(path)] = NoFile THEN @ ELSE fs[out_tmp(path)]]
                     /\ pc' = [pc EXCEPT ![r] = "replace_alt"]
                     /\ UNCHANGED <<writing, ok, fail, rc, how, outcome>>
                ELSE Failed(r, fs, writing, "replfail", o = "oserror")
    /\ UNCHANGED <<ledger, config, candidates, grand_total, done, rmvars, intact,
                   hookvars, started, analyze>>

\* safe_replace, line 103: the sibling temp is renamed over the final path.
ReplaceAlt(r) ==
    /\ pc[r] = "replace_alt"
    /\ LET path == cur(r).path
           regular == IF fs[alt_tmp(path)] = NoFile THEN {"oserror"} ELSE {"renamed"}
       IN  \E o \in Outcomes(regular, {"oserror", "oserror_stuck"}) :
             /\ Spend(o, regular)
             /\ IF o = "renamed"
                THEN /\ fs' = os_replace(fs, alt_tmp(path), path)
                     /\ writing' = renamed(writing, alt_tmp(path), path)
                     /\ pc' = [pc EXCEPT ![r] = "remove_src"]
                     /\ UNCHANGED <<ok, fail, rc, how, outcome>>
                ELSE Failed(r, fs, writing, "replfail", o = "oserror")
    /\ UNCHANGED <<ledger, config, candidates, grand_total, done, rmvars, intact,
                   hookvars, started, analyze>>

\* safe_replace, line 104: the original temp is removed.
RemoveSrc(r) ==
    /\ pc[r] = "remove_src"
    /\ LET path == cur(r).path
           tmp == out_tmp(path)
           regular == IF fs[tmp] = NoFile THEN {"oserror"} ELSE {"removed"}
       IN  \E o \in Outcomes(regular, {"oserror", "oserror_stuck"}) :
             /\ Spend(o, regular)
             /\ IF o = "removed"
                THEN /\ fs' = os_remove(fs, tmp)
                     /\ writing' = unlinked(writing, tmp)
                     /\ pc' = [pc EXCEPT ![r] = "rm_read"]
                     /\ UNCHANGED <<ok, fail, rc, how, outcome>>
                ELSE Failed(r, fs, writing, "replfail", o = "oserror")
    /\ UNCHANGED <<ledger, config, candidates, grand_total, done, rmvars, intact,
                   hookvars, started, analyze>>

\* remove_from_processed_list, lines 119-124, called at main, line 333: the
\* ledger is read; any exception is logged and ends the call (lines 143-144).
RmRead(r) ==
    /\ pc[r] = "rm_read"
    /\ \E o \in Outcomes({"read"}, {"oserror"}) :
         /\ Spend(o, {"read"})
         /\ IF ledger = Absent
            THEN /\ pc' = [pc EXCEPT ![r] = "tally"]
                 /\ UNCHANGED <<lines, warned>>
            ELSE IF o = "read"
            THEN /\ lines' = [lines EXCEPT ![r] = readlines(decode(ledger))]
                 /\ pc' = [pc EXCEPT ![r] = "rm_write"]
                 /\ UNCHANGED warned
            ELSE /\ pc' = [pc EXCEPT ![r] = "tally"]
                 /\ warned' = [warned EXCEPT ![r] = TRUE]
                 /\ UNCHANGED lines
    /\ UNCHANGED <<ledger, fs, config, locals, rc, how, out, writing, intact, hookvars,
                   outcome, started, analyze>>

\* proc_list_while_writing, with the lines written over the ledger itself.
proc_list_written_in_place(bytes, written) == written

\* remove_from_processed_list, lines 126-128: the lines are written to a new
\* file beside the ledger (NamedTemporaryFile, delete=False); the bytes under
\* the ledger's own name stay what they were.
proc_list_while_writing(bytes, written) == bytes

\* remove_from_processed_list, lines 126-138: the temp file beside the ledger
\* is created and filled; an I/O error leaves it with the lines written so far.
RmWrite(r) ==
    /\ pc[r] = "rm_write"
    /\ LET kept == keptLines(lines[r], cur(r).path)
       IN  \E o \in Outcomes({"written"}, {"oserror"}) :
             /\ Spend(o, {"written"})
             /\ IF o = "written"
                THEN /\ out' = [out EXCEPT ![r] = Flatten(kept)]
                     /\ ledger' = proc_list_while_writing(ledger, Flatten(kept))
                     /\ pc' = [pc EXCEPT ![r] = "rm_replace"]
                     /\ UNCHANGED <<lines, warned>>
                ELSE /\ \E n \in 0..Len(kept) :
                          /\ out' = [out EXCEPT ![r] = Flatten(SubSeq(kept, 1, n))]
                          /\ ledger' = proc_list_while_writing(ledger,
                                                               Flatten(SubSeq(kept, 1, n)))
                     /\ lines' = [lines EXCEPT ![r] = <<>>]
                     /\ warned' = [warned EXCEPT ![r] = TRUE]
                     /\ pc' = [pc EXCEPT ![r] = "tally"]
    /\ UNCHANGED <<fs, config, locals, rc, how, writing, intact, hookvars,
                   outcome, started, analyze>>

\* remove_from_processed_list, line 141: the temp file is renamed over the ledger.
RmReplace(r) ==
    /\ pc[r] = "rm_replace"
    /\ LET regular == IF out[r] = Absent THEN {"oserror"} ELSE {"renamed"}
       IN  \E o \in Outcomes(regular, {"oserror"}) :
             /\ Spend(o, regular)
             /\ IF o = "renamed"
                THEN /\ ledger' = out[r]
                     /\ out' = [out EXCEPT ![r] = Absent]
                     /\ UNCHANGED warned
                ELSE /\ warned' = [warned EXCEPT ![r] = TRUE]
                     /\ UNCHANGED <<ledger, out>>
    /\ lines' = [lines EXCEPT ![r] = <<>>]
    /\ pc' = [pc EXCEPT ![r] = "tally"]
    /\ UNCHANGED <<fs, config, locals, rc, how, writing, intact, hookvars, outcome,
                   started, analyze>>

\* Tally, with a candidate whose ledger update failed counted as failed.
TallyUpdateFails(r) ==
    /\ pc[r] = "tally"
    /\ ok' = [ok EXCEPT ![r] = IF warned[r] THEN @ ELSE @ + 1]
    /\ fail' = [fail EXCEPT ![r] = IF warned[r] THEN @ + 1 ELSE @]
    /\ outcome' = [outcome EXCEPT ![r] = Append(@, IF warned[r] THEN "replfail" ELSE "ok")]
    /\ warned' = [warned EXCEPT ![r] = FALSE]
    /\ pc' = [pc EXCEPT ![r] = "for"]
    /\ UNCHANGED <<ledger, fs, config, candidates, grand_total, done, rc, how, lines,
                   out, writing, intact, hookvars, faults, started, analyze>>

\* main, lines 335-339: the candidate is counted as re-encoded.
Tally(r) ==
    /\ pc[r] = "tally"
    /\ ok' = [ok EXCEPT ![r] = @ + 1]
    /\ outcome' = [outcome EXCEPT ![r] = Append(@, IF warned[r] THEN "ok_warned" ELSE "ok")]
    /\ warned' = [warned EXCEPT ![r] = FALSE]
    /\ pc' = [pc EXCEPT ![r] = "for"]
    /\ UNCHANGED <<ledger, fs, config, candidates, grand_total, done, fail, rc, how, lines,
                   out, writing, intact, hookvars, faults, started, analyze>>

\* main, lines 341-355: the summary and the return value.
Summary(r) ==
    /\ pc[r] = "summary"
    /\ rc' = [rc EXCEPT ![r] = IF isDryRun THEN 0 ELSE IF fail[r] = 0 THEN 0 ELSE 3]
    /\ how' = [how EXCEPT ![r] = "returned"]
    /\ pc' = [pc EXCEPT ![r] = "atexit"]
    /\ UNCHANGED <<ledger, fs, config, locals, rmvars, writing, intact, hookvars,
                   outcome, faults, started, analyze>>

\* The process is gone, and its memory with it (the temp file a failed ledger
\* update left stays on disk, but nothing knows its name any more).
Forgotten(r) ==
    /\ candidates' = [candidates EXCEPT ![r] = <<>>]
    /\ grand_total' = [grand_total EXCEPT ![r] = 0]
    /\ done' = [done EXCEPT ![r] = 0]
    /\ ok' = [ok EXCEPT ![r] = 0]
    /\ fail' = [fail EXCEPT ![r] = 0]
    /\ lines' = [lines EXCEPT ![r] = <<>>]
    /\ out' = [out EXCEPT ![r] = Absent]
    /\ warned' = [warned EXCEPT ![r] = FALSE]
    /\ intact' = [intact EXCEPT ![r] = TRUE]
    /\ outcome' = [outcome EXCEPT ![r] = <<>>]
    /\ writing' = [writing EXCEPT ![r] = NoName]

\* What analyze_plex_posthook can come to (lines 218-248): the script is not
\* there; in mode "bg" it is launched or the launch fails; in mode "sync" it
\* exits with 0 or with another status, runs into the timeout, or cannot be
\* invoked.
HookOutcomes(mode) ==
    {"missing"} \cup (IF mode = "bg" THEN {"launched", "launch_failed"}
                                     ELSE {"rc0", "nonzero", "timeout", "invoke_failed"})

\* exit_status, with a post-hook that went wrong failing the process.
exit_status_of_hook(returned, o) ==
    IF o \in {"launch_failed", "nonzero", "timeout", "invoke_failed"} THEN 1 ELSE returned

\* __main__, line 358, after the atexit handlers: analyze_plex_posthook
\* catches and logs whatever comes of the script, and the interpreter ends
\* with the status sys.exit() was given (or the one of the uncaught error).
exit_status(returned, o) == returned

\* _post_exit, lines 250-253: at interpreter exit the post-hook is triggered
\* (analyze_plex_posthook, lines 197-248); then the process ends.
PostExit(r) ==
    /\ pc[r] = "atexit"
    /\ posthook' = [posthook EXCEPT ![r] = @ + 1]
    /\ \E mode \in {"bg", "sync"} :
         \E o \in HookOutcomes(mode) :
           /\ hook' = [hook EXCEPT ![r] = o]
           /\ exited_with' = [exited_with EXCEPT ![r] = exit_status(rc[r], o)]
    /\ pc' = [pc EXCEPT ![r] = "exited"]
    /\ Forgotten(r)
    /\ UNCHANGED <<ledger, fs, config, rc, how, faults, started, analyze>>

\* SIGINT: KeyboardInterrupt is no Exception, so no handler of the script
\* catches it; subprocess.run kills the running child and the interpreter
\* ends by SIGINT (status 130) after the atexit handlers.
Interrupt(r) ==
    /\ Running(r)
    /\ pc[r] \notin {"main", "atexit"}
    /\ Budget
    /\ faults' = faults + 1
    /\ rc' = [rc EXCEPT ![r] = 130]
    /\ how' = [how EXCEPT ![r] = "sigint"]
    /\ pc' = [pc EXCEPT ![r] = "atexit"]
    /\ writing' = [writing EXCEPT ![r] = NoName]
    /\ UNCHANGED <<ledger, fs, config, locals, rmvars, intact, hookvars, outcome, started, analyze>>

\* The process and its child are killed (SIGKILL, the container stops, power
\* fails): nothing more runs, not even the atexit handlers.
Kill(r) ==
    /\ Running(r)
    /\ Budget
    /\ faults' = faults + 1
    /\ rc' = [rc EXCEPT ![r] = 137]
    /\ how' = [how EXCEPT ![r] = "sigkill"]
    /\ exited_with' = [exited_with EXCEPT ![r] = 137]
    /\ pc' = [pc EXCEPT ![r] = "killed"]
    /\ Forgotten(r)
    /\ UNCHANGED <<ledger, fs, config, posthook, hook, started, analyze>>

\* ------------------------------------------------------------ specification

InitRuns ==
    /\ pc = [r \in Runs |-> "off"]
    /\ candidates = [r \in Runs |-> <<>>]
    /\ grand_total = [r \in Runs |-> 0]
    /\ done = [r \in Runs |-> 0]
    /\ ok = [r \in Runs |-> 0]
    /\ fail = [r \in Runs |-> 0]
    /\ rc = [r \in Runs |-> -1]
    /\ how = [r \in Runs |-> "none"]
    /\ lines = [r \in Runs |-> <<>>]
    /\ out = [r \in Runs |-> Absent]
    /\ warned = [r \in Runs |-> FALSE]
    /\ writing = [r \in Runs |-> NoName]
    /\ intact = [r \in Runs |-> TRUE]
    /\ posthook = [r \in Runs |-> 0]
    /\ hook = [r \in Runs |-> "none"]
    /\ exited_with = [r \in Runs |-> -1]
    /\ outcome = [r \in Runs |-> <<>>]
    /\ faults = 0
    /\ started = 0

InitTree == fs = [f \in Files |-> IF f \in MediaPaths THEN Original ELSE NoFile]

InitAnalyze ==
    /\ apc = [p \in Procs |-> "off"]
    /\ lock_file = [p \in Procs |-> "None"]
    /\ flocked = [p \in Procs |-> FALSE]
    /\ arc = [p \in Procs |-> -1]
    /\ total = [p \in Procs |-> 0]
    /\ ok_tracks = [p \in Procs |-> 0]
    /\ fail_tracks = [p \in Procs |-> 0]
    /\ astarted = 0

\* The lines the ledgers of the pipeline's runs are made of.
RunLines == {LineA, LineB, LineX}

Init ==
    /\ ledger \in {Flatten(ls) : ls \in SeqsUpTo(RunLines, MaxLines)}
    /\ GAIN_THRESHOLD = 500
    /\ MAX_FILES_INT \in {0, 1}
    /\ DRY_RUN \in {"", "1"}
    /\ overlap = FALSE
    /\ cross_device \in BOOLEAN
    /\ InitRuns
    /\ InitTree
    /\ InitAnalyze

Next ==
    \E r \in Runs :
        \/ StartRun(r)
        \/ Main(r)
        \/ For(r)
        \/ FfmpegStart(r)
        \/ FfmpegExit(r)
        \/ Strip(r)
        \/ Replace(r)
        \/ Copy2Start(r)
        \/ Copy2End(r)
        \/ ReplaceAlt(r)
        \/ RemoveSrc(r)
        \/ RmRead(r)
        \/ RmWrite(r)
        \/ RmReplace(r)
        \/ Tally(r)
        \/ Summary(r)
        \/ PostExit(r)
        \/ Interrupt(r)
        \/ Kill(r)

Spec == Init /\ [][Next]_vars


\* ------------------------------------------------- force_plex_analyze.py

ARunning(p) == apc[p] \notin {"off", "exited", "killed"}

\* flock_granted, for a lock that is not exclusive (LOCK_SH).
flock_shared(p) == TRUE

\* fcntl.flock(f, LOCK_EX | LOCK_NB): granted unless another open file of the
\* lock path holds the lock.
flock_granted(p) == \A q \in Procs \ {p} : ~flocked[q]

\* __main__, line 182: the process is started.
AStart(p) ==
    /\ astarted < MaxAnalyze
    /\ ~ARunning(p)
    /\ astarted' = astarted + 1
    /\ apc' = [apc EXCEPT ![p] = "main"]
    /\ arc' = [arc EXCEPT ![p] = -1]
    /\ total' = [total EXCEPT ![p] = 0]
    /\ ok_tracks' = [ok_tracks EXCEPT ![p] = 0]
    /\ fail_tracks' = [fail_tracks EXCEPT ![p] = 0]
    /\ UNCHANGED <<lock_file, flocked, faults, reencode>>

AReturn(p, status) ==
    /\ arc' = [arc EXCEPT ![p] = status]
    /\ apc' = [apc EXCEPT ![p] = "atexit"]

\* main, lines 100-102: the required settings.
AConfig(p) ==
    /\ apc[p] = "main"
    /\ \E configured \in BOOLEAN :
         IF configured
         THEN /\ apc' = [apc EXCEPT ![p] = "open"]
              /\ UNCHANGED arc
         ELSE AReturn(p, 1)
    /\ UNCHANGED <<lock_file, flocked, total, ok_tracks, fail_tracks, astarted, faults,
                   reencode>>

\* acquire_lock, lines 65-66: the lock file is opened (created or truncated).
AOpen(p) ==
    /\ apc[p] = "open"
    /\ lock_file' = [lock_file EXCEPT ![p] = "open"]
    /\ apc' = [apc EXCEPT ![p] = "flock"]
    /\ UNCHANGED <<flocked, arc, total, ok_tracks, fail_tracks, astarted, faults, reencode>>

\* acquire_lock, lines 67-72, and main, lines 104-105: the non-blocking
\* exclusive lock; when it is refused main returns 0.
AFlock(p) ==
    /\ apc[p] = "flock"
    /\ IF flock_granted(p)
       THEN /\ flocked' = [flocked EXCEPT ![p] = TRUE]
            /\ apc' = [apc EXCEPT ![p] = "wait_for_plex"]
            /\ UNCHANGED arc
       ELSE /\ AReturn(p, 0)
            /\ UNCHANGED flocked
    /\ UNCHANGED <<lock_file, total, ok_tracks, fail_tracks, astarted, faults, reencode>>

\* main, lines 109-134: Plex is waited for (2), connected to (3), and the
\* music section is looked up (4 when there is none, 5 when listing fails).
AConnect(p) ==
    /\ apc[p] = "wait_for_plex"
    /\ \E status \in {0, 2, 3, 4, 5} :
         IF status = 0
         THEN /\ apc' = [apc EXCEPT ![p] = "tracks"]
              /\ UNCHANGED arc
         ELSE AReturn(p, status)
    /\ UNCHANGED <<lock_file, flocked, total, ok_tracks, fail_tracks, astarted, faults,
                   reencode>>

\* main, lines 143-162: one track is analyzed; a failure is counted and the
\* walk goes on.
ATrack(p) ==
    /\ apc[p] = "tracks"
    /\ total[p] < MaxTracks
    /\ total' = [total EXCEPT ![p] = @ + 1]
    /\ \E analyzed \in BOOLEAN :
         /\ ok_tracks' = [ok_tracks EXCEPT ![p] = IF analyzed THEN @ + 1 ELSE @]
         /\ fail_tracks' = [fail_tracks EXCEPT ![p] = IF analyzed THEN @ ELSE @ + 1]
    /\ UNCHANGED <<apc, lock_file, flocked, arc, astarted, faults, reencode>>

\* main, lines 168-169: the library has been walked.
AComplete(p) ==
    /\ apc[p] = "tracks"
    /\ AReturn(p, 0)
    /\ UNCHANGED <<lock_file, flocked, total, ok_tracks, fail_tracks, astarted, faults,
                   reencode>>

\* An exception nothing catches: open() of the lock file fails (line 66, with
\* _lock_file still None), or a call into Plex raises outside the handlers of
\* lines 93, 115, 132 and 155 (the walk catches KeyboardInterrupt only, lines
\* 140-166).  The interpreter exits with status 1 after the atexit handlers.
AUncaught(p) ==
    /\ apc[p] \in {"open", "wait_for_plex", "tracks"}
    /\ AReturn(p, 1)
    /\ UNCHANGED <<lock_file, flocked, total, ok_tracks, fail_tracks, astarted, faults,
                   reencode>>

\* SIGINT: main returns 130 when it is in the walk (lines 164-166); anywhere
\* else nothing catches KeyboardInterrupt and the interpreter ends by SIGINT.
AInterrupt(p) ==
    /\ ARunning(p)
    /\ apc[p] # "atexit"
    /\ AReturn(p, 130)
    /\ UNCHANGED <<lock_file, flocked, total, ok_tracks, fail_tracks, astarted, faults,
                   reencode>>

\* AReleaseLock, with the exit handler leaving the lock as it is.
AReleaseLockSkipped(p) ==
    /\ apc[p] = "atexit"
    /\ apc' = [apc EXCEPT ![p] = "exited"]
    /\ UNCHANGED <<flocked, lock_file, arc, total, ok_tracks, fail_tracks, astarted,
                   faults, reencode>>

\* release_lock, lines 74-82, registered by atexit: unlock and close.
AReleaseLock(p) ==
    /\ apc[p] = "atexit"
    /\ IF lock_file[p] # "None"
       THEN /\ flocked' = [flocked EXCEPT ![p] = FALSE]
            /\ lock_file' = [lock_file EXCEPT ![p] = "closed"]
       ELSE UNCHANGED <<flocked, lock_file>>
    /\ apc' = [apc EXCEPT ![p] = "exited"]
    /\ UNCHANGED <<arc, total, ok_tracks, fail_tracks, astarted, faults, reencode>>

\* The process is killed: no handler runs; the kernel closes its files, which
\* drops the lock.
AKill(p) ==
    /\ ARunning(p)
    /\ apc' = [apc EXCEPT ![p] = "killed"]
    /\ arc' = [arc EXCEPT ![p] = 137]
    /\ flocked' = [flocked EXCEPT ![p] = FALSE]
    /\ lock_file' = [lock_file EXCEPT ![p] = IF @ = "open" THEN "closed" ELSE @]
    /\ UNCHANGED <<total, ok_tracks, fail_tracks, astarted, faults, reencode>>

\* A new process starts with _lock_file = None (line 63).
InitLock ==
    /\ ledger = Flatten(<<LineA>>)
    /\ GAIN_THRESHOLD = 500
    /\ MAX_FILES_INT = 0
    /\ DRY_RUN = ""
    /\ overlap = FALSE
    /\ cross_device = FALSE
    /\ InitRuns
    /\ InitTree
    /\ InitAnalyze

NextLock ==
    \E p \in Procs :
        \/ AStart(p)
        \/ AConfig(p)
        \/ AOpen(p)
        \/ AFlock(p)
        \/ AConnect(p)
        \/ ATrack(p)
        \/ AComplete(p)
        \/ AUncaught(p)
        \/ AInterrupt(p)
        \/ AReleaseLock(p)
        \/ AKill(p)

SpecLock == InitLock /\ [][NextLock]_vars


\* ------------------------------------------ specifications of the functions

\* Runs at the head of main(), over any ledger and threshold; a second run
\* selects from the same, unmodified ledger.
SelectLines == {LineA, LineB, LineEq, LineLo, LineO, LineNaN, Line4, LineM, LineBad}

InitSelect ==
    /\ ledger \in {Absent} \cup {Flatten(ls) : ls \in SeqsUpTo(SelectLines, MaxText)}
    /\ GAIN_THRESHOLD \in {500, 620}
    /\ MAX_FILES_INT = 0
    /\ DRY_RUN = ""
    /\ overlap = TRUE
    /\ cross_device = FALSE
    /\ InitRuns
    /\ InitTree
    /\ InitAnalyze

NextSelect == \E r \in Runs : StartRun(r) \/ Main(r)

SpecSelect == InitSelect /\ [][NextSelect]_vars

\* A run entering remove_from_processed_list(p), over any ledger and path.
LedgerLines == {LineA, LineEq, LineB, LineNaN, Line4, LineM, LineBad}

InitLedger ==
    /\ ledger \in {Absent} \cup {Flatten(ls) : ls \in SeqsUpTo(LedgerLines, MaxText)}
    /\ GAIN_THRESHOLD = 500
    /\ MAX_FILES_INT = 0
    /\ DRY_RUN = ""
    /\ overlap = FALSE
    /\ cross_device = FALSE
    /\ \E p \in MediaPaths :
         candidates = [r \in Runs |-> IF r = 1 THEN <<[path |-> p, gain |-> 0]>> ELSE <<>>]
    /\ pc = [r \in Runs |-> IF r = 1 THEN "rm_read" ELSE "off"]
    /\ done = [r \in Runs |-> IF r = 1 THEN 1 ELSE 0]
    /\ started = 1
    /\ grand_total = [r \in Runs |-> 0]
    /\ ok = [r \in Runs |-> 0]
    /\ fail = [r \in Runs |-> 0]
    /\ rc = [r \in Runs |-> -1]
    /\ how = [r \in Runs |-> IF r = 1 THEN "running" ELSE "none"]
    /\ lines = [r \in Runs |-> <<>>]
    /\ out = [r \in Runs |-> Absent]
    /\ warned = [r \in Runs |-> FALSE]
    /\ writing = [r \in Runs |-> NoName]
    /\ intact = [r \in Runs |-> TRUE]
    /\ posthook = [r \in Runs |-> 0]
    /\ hook = [r \in Runs |-> "none"]
    /\ exited_with = [r \in Runs |-> -1]
    /\ outcome = [r \in Runs |-> <<>>]
    /\ faults = 0
    /\ InitTree
    /\ InitAnalyze

NextLedger == \E r \in Runs : RmRead(r) \/ RmWrite(r) \/ RmReplace(r)

SpecLedger == InitLedger /\ [][NextLedger]_vars

\* The lines the ledger's producer appends.
AppendLines == {LineB, LineO}

\* The external producer of the ledger (the loudness scan) appends one record
\* to /data/processed.list, creating the file when it is not there.
ProducerAppend ==
    /\ \E line \in AppendLines :
         /\ IF ledger = Absent THEN TRUE ELSE Len(readlines(ledger)) <= MaxText
         /\ ledger' = IF ledger = Absent THEN line ELSE ledger \o line
    /\ UNCHANGED <<fs, config, started, pc, locals, rc, how, rmvars, writing, intact,
                   hookvars, outcome, faults, analyze>>

\* remove_from_processed_list(p) over any ledger, with the producer appending
\* at any point of the call.
NextAppend ==
    \/ \E r \in Runs : RmRead(r) \/ RmWrite(r) \/ RmReplace(r)
    \/ ProducerAppend

SpecAppend == InitLedger /\ [][NextAppend]_vars

\* __main__, line 358: the scheduler starts the pipeline again, as often as it
\* likes, once the run before it has ended.
StartAgain(r) ==
    /\ \A q \in Runs : ~Running(q)
    /\ \A q \in Runs : r <= q
    /\ pc' = [pc EXCEPT ![r] = "main"]
    /\ rc' = [rc EXCEPT ![r] = -1]
    /\ how' = [how EXCEPT ![r] = "running"]
    /\ posthook' = [posthook EXCEPT ![r] = 0]
    /\ hook' = [hook EXCEPT ![r] = "none"]
    /\ exited_with' = [exited_with EXCEPT ![r] = -1]
    /\ UNCHANGED <<ledger, fs, config, started, locals, rmvars, writing, intact,
                   outcome, faults, analyze>>

\* The pipeline re-run again and again on one ledger with a batch cap, in an
\* environment whose tools and file operations work (no fault is left to
\* inject); the file of a record may be gone from the media tree.
InitRerun ==
    /\ ledger \in {Flatten(ls) : ls \in SeqsUpTo(RunLines, MaxLines)}
    /\ GAIN_THRESHOLD = 500
    /\ MAX_FILES_INT \in {1, 2}
    /\ DRY_RUN = ""
    /\ overlap = FALSE
    /\ cross_device \in BOOLEAN
    /\ pc = [r \in Runs |-> "off"]
    /\ candidates = [r \in Runs |-> <<>>]
    /\ grand_total = [r \in Runs |-> 0]
    /\ done = [r \in Runs |-> 0]
    /\ ok = [r \in Runs |-> 0]
    /\ fail = [r \in Runs |-> 0]
    /\ rc = [r \in Runs |-> -1]
    /\ how = [r \in Runs |-> "none"]
    /\ lines = [r \in Runs |-> <<>>]
    /\ out = [r \in Runs |-> Absent]
    /\ warned = [r \in Runs |-> FALSE]
    /\ writing = [r \in Runs |-> NoName]
    /\ intact = [r \in Runs |-> TRUE]
    /\ posthook = [r \in Runs |-> 0]
    /\ hook = [r \in Runs |-> "none"]
    /\ exited_with = [r \in Runs |-> -1]
    /\ outcome = [r \in Runs |-> <<>>]
    /\ started = 0
    /\ faults = MaxFaults
    /\ \E gone \in SUBSET {PathB} :
         fs = [f \in Files |-> IF f \in MediaPaths \ gone THEN Original ELSE NoFile]
    /\ InitAnalyze

NextRerun ==
    \E r \in Runs :
        \/ StartAgain(r)
        \/ Main(r)
        \/ For(r)
        \/ FfmpegStart(r)
        \/ FfmpegExit(r)
        \/ Strip(r)
        \/ Replace(r)
        \/ Copy2Start(r)
        \/ Copy2End(r)
        \/ ReplaceAlt(r)
        \/ RemoveSrc(r)
        \/ RmRead(r)
        \/ RmWrite(r)
        \/ RmReplace(r)
        \/ Tally(r)
        \/ Summary(r)
        \/ PostExit(r)

\* The steps of a run after it has loaded its candidates, and the scheduler's.
AfterMain ==
    \E r \in Runs :
        \/ StartAgain(r)
        \/ For(r)
        \/ FfmpegStart(r)
        \/ FfmpegExit(r)
        \/ Strip(r)
        \/ Replace(r)
        \/ Copy2Start(r)
        \/ Copy2End(r)
        \/ ReplaceAlt(r)
        \/ RemoveSrc(r)
        \/ RmRead(r)
        \/ RmWrite(r)
        \/ RmReplace(r)
        \/ Tally(r)
        \/ Summary(r)
        \/ PostExit(r)

\* Every started run keeps running to its end, and the scheduler keeps
\* starting the pipeline: weak fairness of the steps, that of Main(r), which
\* is enabled exactly when pc[r] = "main", written as what it amounts to.
SpecRerun ==
    /\ InitRerun
    /\ [][NextRerun]_vars
    /\ WF_vars(AfterMain)
    /\ \A r \in Runs : []<>(pc[r] # "main")

\* Two runs the scheduler lets overlap.
InitTwo ==
    /\ ledger = Flatten(<<LineA>>)
    /\ GAIN_THRESHOLD = 500
    /\ MAX_FILES_INT = 0
    /\ DRY_RUN \in {"", "1"}
    /\ overlap = TRUE
    /\ cross_device \in BOOLEAN
    /\ InitRuns
    /\ InitTree
    /\ InitAnalyze

SpecTwo == InitTwo /\ [][Next]_vars

\* --------------------------------------------------- the claims' vocabulary

\* A line without its line end.
Body(line) ==
    IF line # <<>> /\ line[Len(line)] = NL THEN SubSeq(line, 1, Len(line) - 1) ELSE line

TabCount(line) == Cardinality({k \in 1..Len(line) : line[k] = TAB})

\* A well-formed record: exactly three tab-separated fields.
IsRecord(line) == TabCount(Body(line)) = 2

PathOf(line) == SubSeq(Body(line), find(Body(line), TAB) + 1, rfind(Body(line), TAB) - 1)

GainOf(line) == SubSeq(Body(line), rfind(Body(line), TAB) + 1, Len(Body(line)))

\* The paths the records of the file name.
LinePaths(file) ==
    IF file = Absent THEN {}
    ELSE LET ls == readlines(file)
         IN  {PathOf(ls[k]) : k \in {j \in 1..Len(ls) : IsRecord(ls[j])}}

\* The file holds a record of path p.
HasLine(file, p) ==
    /\ file # Absent
    /\ LET ls == readlines(file)
       IN  \E k \in 1..Len(ls) : IsRecord(ls[k]) /\ PathOf(ls[k]) = p

\* The run is configured as a dry run.
DryRun == DRY_RUN = "1"

\* main() of run r has returned from its summary (or from its early return).
AtSummary(r) == pc[r] = "atexit" /\ how[r] = "returned"

Remediated(r) == {i \in 1..Len(outcome[r]) : outcome[r][i] \in {"ok", "ok_warned"}}

FailedOnes(r) == {i \in 1..Len(outcome[r]) : outcome[r][i] \in {"encfail", "replfail"}}

Skipped(r) == {i \in 1..Len(outcome[r]) : outcome[r][i] = "skipped"}

PathAt(r, i) == candidates[r][i].path

\* ------------------------------------------------------------------ claims

\* C1, as claimed: a failed candidate never stops the batch; at the summary ok
\* and fail count the remediated and the failed candidates, every failed
\* candidate's ledger line is still present and every remediated candidate's
\* line has been removed.
C1_Claimed ==
    \A r \in Runs :
        AtSummary(r) /\ ~DryRun =>
            /\ Len(outcome[r]) = Len(candidates[r])
            /\ ok[r] = Cardinality(Remediated(r))
            /\ fail[r] = Cardinality(FailedOnes(r))
            /\ \A i \in FailedOnes(r) : HasLine(ledger, PathAt(r, i))
            /\ \A i \in Remediated(r) : ~HasLine(ledger, PathAt(r, i))

\* At the summary every candidate of the batch has been processed and the
\* counters count the outcomes.
C1_Counted ==
    \A r \in Runs :
        AtSummary(r) /\ ~DryRun =>
            /\ Len(outcome[r]) = Len(candidates[r])
            /\ ok[r] = Cardinality(Remediated(r))
            /\ fail[r] = Cardinality(FailedOnes(r))
            /\ Len(candidates[r]) = ok[r] + fail[r] + Cardinality(Skipped(r))

\* The step that records a candidate as failed counts it, leaves the ledger
\* as it is and goes back to the head of the loop; the step that ends a
\* candidate's ledger update without a warning leaves no record of its path.
C1_LedgerStep ==
    \A r \in Runs :
        /\ (/\ Len(outcome'[r]) = Len(outcome[r]) + 1
            /\ outcome'[r][Len(outcome'[r])] \in {"encfail", "replfail"})
               => /\ ledger' = ledger
                  /\ pc'[r] = "for"
                  /\ fail'[r] = fail[r] + 1
                  /\ ok'[r] = ok[r]
        /\ (pc[r] \in {"rm_read", "rm_replace"} /\ pc'[r] = "tally" /\ ~warned'[r])
               => ~HasLine(ledger', cur(r).path)

\* C1, amended: a failed candidate never stops the batch; every later
\* candidate is still processed and at the summary ok and fail count the
\* remediated and the failed candidates; handling a failed candidate never
\* changes the ledger, and a remediated candidate's ledger update, when it
\* succeeds, leaves no record of its path (when it fails, the line stays and
\* the candidate still counts as remediated).
C1_Isolation == [](C1_Counted) /\ [][C1_LedgerStep]_vars

\* C1's case: a candidate failed in its encode step and a later candidate of
\* another path was remediated, its line removed and the failed one's kept,
\* and the run reached its summary.
C1_Witness ==
    \E r \in Runs :
        /\ AtSummary(r)
        /\ \E i, j \in 1..Len(outcome[r]) :
             /\ i < j
             /\ outcome[r][i] = "encfail"
             /\ outcome[r][j] = "ok"
             /\ PathAt(r, i) # PathAt(r, j)
             /\ HasLine(ledger, PathAt(r, i))
             /\ ~HasLine(ledger, PathAt(r, j))
        /\ ok[r] = 1
        /\ fail[r] = 1

\* C2, as claimed: at every point of a run, every candidate whose file has
\* been replaced has had its ledger line removed, and every candidate not yet
\* reached still has its line.
C2_Claimed ==
    \A r \in Runs :
        \A i \in 1..Len(candidates[r]) :
            /\ (i <= done[r] /\ fs[PathAt(r, i)].gen > 0) => ~HasLine(ledger, PathAt(r, i))
            /\ i > done[r] => HasLine(ledger, PathAt(r, i))

\* A candidate whose ledger line is gone has had its file replaced.
C2_NeverAhead ==
    \A present \in {LinePaths(ledger)} :
        \A r \in Runs :
            \A i \in 1..Len(candidates[r]) :
                PathAt(r, i) \notin present => fs[PathAt(r, i)].gen > 0

\* The records of a path leave the ledger only in a ledger update (the rename
\* that ends remove_from_processed_list), and only after the path's file was
\* replaced.
C2_RemovalStep ==
    \A p \in MediaPaths :
        (ledger' # ledger /\ HasLine(ledger, p) /\ ~HasLine(ledger', p)) =>
            /\ fs[p].gen > 0
            /\ \E r \in Runs : pc[r] = "rm_replace" /\ pc'[r] = "tally"

\* C2, amended: the ledger never runs ahead of the files.  At every point at
\* which a run can crash, every candidate whose ledger line is gone has had
\* its file replaced, and a line leaves the ledger only in a ledger update
\* and only after the file of its path was replaced, so a re-run never skips
\* a file that was not replaced.  (The converse fails: a file can be replaced
\* while its line is still present, and a re-run then re-encodes it again.)
C2_CrashConsistent == [](C2_NeverAhead) /\ [][C2_RemovalStep]_vars

\* C2's case: a run is killed in the middle of its batch, with one file
\* replaced and its line removed and another not yet reached.
C2_Witness ==
    \E r \in Runs :
        /\ pc[r] = "killed"
        /\ fs[PathA].gen = 1
        /\ ~HasLine(ledger, PathA)
        /\ fs[PathB].gen = 0
        /\ HasLine(ledger, PathB)

\* C3, as claimed: the final path of every media file always holds a complete
\* encoding, the old one or the new one, never a partial, truncated or
\* missing one.
C3_Claimed ==
    \A p \in MediaPaths : fs[p] # NoFile /\ fs[p].whole

\* The step that completes the cross-device fallback leaves a complete new
\* encoding at the final path and neither the temp file nor the sibling temp.
C10_Step ==
    \A r \in Runs :
        (cross_device /\ pc[r] = "remove_src" /\ pc'[r] = "rm_read") =>
            /\ fs'[cur(r).path] # NoFile
            /\ fs'[cur(r).path].gen > 0
            /\ fs'[cur(r).path].whole
            /\ fs'[out_tmp(cur(r).path)] = NoFile
            /\ fs'[alt_tmp(cur(r).path)] = NoFile

\* C10, as claimed: when the rename fails with EXDEV and the fallback
\* completes, the final path holds what the rename would have put there (the
\* temp file's complete content), and neither the temp file nor the
\* fallback's sibling temp remains.
C10_Claimed == [][C10_Step]_vars

\* The step that ends a successful ledger update for a path leaves the lines of
\* the ledger's bytes that are not records of that path, in order, unchanged.
C4_Step ==
    \A r \in Runs :
        (pc[r] = "rm_replace" /\ pc'[r] = "tally" /\ ~warned'[r]) =>
            LET before == readlines(ledger)
                retained == SelectSeq(before,
                               LAMBDA l : ~(IsRecord(l) /\ PathOf(l) = cur(r).path))
            IN  ledger' = Flatten(retained)

\* C4, as claimed: after remove_from_processed_list(p) succeeds the ledger
\* holds, in the original order and unchanged, every record whose path field
\* differs from p and every malformed line, and no record of p.
C4_Claimed == [][C4_Step]_vars

\* The gain strings of the model's ledgers that are numbers, in hundredths.
GainValue(g) ==
    CASE g = <<"6", ".", "2">> -> 620
      [] g = <<"-", "7">> -> -700
      [] g = <<"9">> -> 900
      [] g = <<"5", ".", "0">> -> 500
      [] g = <<"4", ".", "9", "9">> -> 499
      [] g = <<"8">> -> 800

IsNumber(g) ==
    g \in {<<"6", ".", "2">>, <<"-", "7">>, <<"9">>, <<"5", ".", "0">>,
           <<"4", ".", "9", "9">>, <<"8">>}

\* The path ends in .mp3, in any mix of cases.
HasMp3Ext(p) ==
    /\ Len(p) >= 4
    /\ SubSeq(p, Len(p) - 3, Len(p)) \in
           {<<".", m, q, "3">> : m \in {"m", "M"}, q \in {"p", "P"}}

\* The lines of the ledger's text that select a candidate at a threshold.
Eligible(text, threshold) ==
    LET ls == readlines(text)
    IN  {k \in 1..Len(ls) :
            /\ IsRecord(ls[k])
            /\ IsNumber(GainOf(ls[k]))
            /\ (GainValue(GainOf(ls[k])) >= threshold
                    \/ 0 - GainValue(GainOf(ls[k])) >= threshold)
            /\ HasMp3Ext(PathOf(ls[k]))}

\* The ledger's text as the script reads it (empty when it is absent).
LedgerText == IF ledger = Absent THEN <<>> ELSE decode(ledger)

\* The j-th smallest element of a set of numbers.
Nth(S, j) == CHOOSE k \in S : Cardinality({m \in S : m < k}) = j - 1

\* C5: the candidates a run loads are exactly the records of the ledger with
\* abs(gain) >= threshold and a path ending in .mp3 in any case, in ledger
\* order, each with its path and gain; an absent ledger gives none; two runs
\* selecting from the same unmodified ledger load the same sequence.
C5_Selection ==
    \A r \in Runs :
        pc[r] \in {"for", "atexit"} =>
            LET ls == readlines(LedgerText)
                E == Eligible(LedgerText, GAIN_THRESHOLD)
            IN  /\ Len(candidates[r]) = Cardinality(E)
                /\ grand_total[r] = Cardinality(E)
                /\ \A j \in 1..Len(candidates[r]) :
                     /\ candidates[r][j].path = PathOf(ls[Nth(E, j)])
                     /\ candidates[r][j].gain = GainValue(GainOf(ls[Nth(E, j)]))
                /\ \A q \in Runs : pc[q] \in {"for", "atexit"} => candidates[q] = candidates[r]

\* C5's case: a gain equal to the threshold is taken, one just below it is
\* not, a negative gain and an upper-case extension are taken, and a second
\* selection gives the same.
C5_Witness ==
    /\ ledger = Flatten(<<LineLo, LineEq, LineB>>)
    /\ GAIN_THRESHOLD = 500
    /\ pc[1] = "for"
    /\ pc[2] = "for"
    /\ candidates[2] = <<[path |-> PathA, gain |-> 500], [path |-> PathB, gain |-> -700]>>

\* A process of force_plex_analyze.py for which acquire_lock() returned True
\* and that has not released the lock.
Holds(p) ==
    \/ apc[p] \in {"wait_for_plex", "tracks"}
    \/ apc[p] = "atexit" /\ flocked[p]

\* At most one process holds the lock, and the step of flock can always be
\* taken (it never waits).
C6_OneHolder ==
    /\ \A p, q \in Procs : (Holds(p) /\ Holds(q)) => p = q
    /\ \A p \in Procs : apc[p] = "flock" => ENABLED AFlock(p)

\* A process that tries the lock while another holds it leaves acquire_lock
\* in that very step, without the lock, and main returns 0.
C6_Refused ==
    \A p \in Procs :
        (/\ apc[p] = "flock"
         /\ \E q \in Procs \ {p} : Holds(q)
         /\ apc'[p] \notin {"flock", "killed"}
         /\ arc'[p] # 130)
            => apc'[p] = "atexit" /\ arc'[p] = 0 /\ ~flocked'[p]

\* C6: for any interleaving of the processes calling acquire_lock(), at most
\* one holds the lock at any time, and an attempt made while another holds it
\* returns False at once, without blocking.
C6_Exclusive == [](C6_OneHolder) /\ [][C6_Refused]_vars

\* C6's case: one process holds the lock and the other, having tried, was
\* refused.
C6_Witness ==
    \E p, q \in Procs :
        /\ Holds(p)
        /\ apc[p] = "tracks"
        /\ apc[q] = "atexit"
        /\ arc[q] = 0
        /\ lock_file[q] = "open"
        /\ ~flocked[q]

\* A run that is loading the ledger, re-encoding, replacing or updating the ledger.
Active(r) == Running(r) /\ pc[r] # "atexit"

\* C7, as claimed: two runs of the pipeline are never active at the same time.
C7_Claimed == \A r, q \in Runs : (Active(r) /\ Active(q)) => r = q

\* In a dry run no step changes the ledger, the media tree with its temp
\* files, the temp file of a ledger update, or the lock.
C8_Frame == DryRun => UNCHANGED <<ledger, fs, out, writing, lock_file, flocked>>

\* In a dry run the count the run reports as available is the number of
\* records the ledger selects, and the run lists its batch and nothing else.
C8_Count ==
    \A r \in Runs :
        (DryRun /\ pc[r] \in {"for", "summary", "atexit"}) =>
            /\ grand_total[r] = Cardinality(Eligible(LedgerText, GAIN_THRESHOLD))
            /\ \A i \in 1..Len(outcome[r]) : outcome[r][i] = "dry"
            /\ AtSummary(r) => Len(outcome[r]) = Len(candidates[r])

\* C8: with dry-run enabled a run changes neither the ledger, nor the lock,
\* nor any media or temp file, whatever the number of candidates, and the
\* count of available candidates it reports is the size of the filtered set.
C8_DryRun == [](C8_Count) /\ [][C8_Frame]_vars

\* C8's case: a dry run listed two candidates and reached its summary.
C8_Witness ==
    \E r \in Runs :
        /\ DryRun
        /\ AtSummary(r)
        /\ Len(outcome[r]) = 2
        /\ grand_total[r] = 2
        /\ rc[r] = 0

\* C9, as claimed: the exit status is 130 when the run was interrupted;
\* otherwise it is 0 exactly when the run is a dry run, has no candidates or
\* finished with no failed candidate, and 3 exactly when one or more
\* candidates of the batch failed.
C9_Claimed ==
    \A r \in Runs :
        pc[r] = "atexit" =>
            IF how[r] = "sigint" THEN rc[r] = 130
            ELSE /\ rc[r] = 0 <=>
                      \/ DryRun
                      \/ Len(candidates[r]) = 0
                      \/ Len(outcome[r]) = Len(candidates[r]) /\ FailedOnes(r) = {}
                 /\ rc[r] = 3 <=> FailedOnes(r) # {}

\* C11: on every exit path of the process that the interpreter's exit
\* handlers see (main() returned after a complete batch, a batch with failed
\* candidates, no candidates or a dry run; an uncaught error; an interrupt) the
\* post-hook is triggered exactly once, never before main() is over, and
\* whatever comes of it (script missing, launch failure, non-zero exit,
\* timeout) the process ends with the status main() produced.
C11_PostHook ==
    \A r \in Runs :
        /\ (Running(r) /\ pc[r] # "atexit") => posthook[r] = 0
        /\ pc[r] = "atexit" => posthook[r] = 0 /\ rc[r] # -1
        /\ pc[r] = "exited" =>
              /\ posthook[r] = 1
              /\ hook[r] # "none"
              /\ how[r] \in {"returned", "uncaught", "sigint"}
              /\ exited_with[r] = rc[r]
              /\ how[r] = "returned" => rc[r] \in {0, 3}
              /\ how[r] = "uncaught" => rc[r] = 1

\* C11's case: a run with a failed candidate returned 3, its post-hook ran
\* into the timeout, and the process ended with 3.
C11_Witness ==
    \E r \in Runs :
        /\ pc[r] = "exited"
        /\ posthook[r] = 1
        /\ how[r] = "returned"
        /\ rc[r] = 3
        /\ hook[r] = "timeout"
        /\ exited_with[r] = 3

\* C12, as claimed: when an interrupt ends a run, the candidate the loop was
\* at has been completed or failed (the run is not between its replace and its
\* ledger update, and no temp file of it is left), every candidate processed
\* before stays committed (file replaced, ledger line removed), and the run
\* reports status 130.
C12_Claimed ==
    \A r \in Runs :
        (pc[r] = "atexit" /\ how[r] = "sigint") =>
            /\ rc[r] = 130
            /\ Len(outcome[r]) = done[r]
            /\ \A i \in 1..done[r] :
                 /\ fs[out_tmp(PathAt(r, i))] = NoFile
                 /\ fs[alt_tmp(PathAt(r, i))] = NoFile
            /\ \A i \in Remediated(r) :
                 /\ fs[PathAt(r, i)].gen > 0
                 /\ ~HasLine(ledger, PathAt(r, i))

\* The step that ends the processing of a candidate, failed or remediated or
\* cut short by an uncaught error, leaves no temp file of that candidate.
C13_Step ==
    \A r \in Runs :
        LET ended == /\ Len(outcome'[r]) = Len(outcome[r]) + 1
                     /\ outcome'[r][Len(outcome'[r])] \in
                            {"encfail", "replfail", "ok", "ok_warned"}
            aborted == how[r] = "running" /\ how'[r] = "uncaught"
        IN  (ended \/ aborted) =>
                /\ fs'[out_tmp(cur(r).path)] = NoFile
                /\ fs'[alt_tmp(cur(r).path)] = NoFile

\* C13, as claimed: whenever the processing of a candidate ends without
\* success (encode failure, replace failure in the primary rename or at any
\* step of the cross-device fallback, any other failure exit) neither
\* '<path>.reenc.tmp.mp3' nor the fallback's sibling temp remains; on success
\* the temp name no longer exists.
C13_Claimed == [][C13_Step]_vars

\* The step that counts a candidate: counted failed, its file is the original
\* and its ledger line is in place; counted ok, its file is a complete new
\* encoding.  (In the first run over the tree, whose files are all original.)
C14_Step ==
    \A r \in Runs :
        (started = 1 /\ Len(outcome'[r]) = Len(outcome[r]) + 1) =>
            LET p == cur(r).path
                what == outcome'[r][Len(outcome'[r])]
            IN  /\ what \in {"encfail", "replfail"} =>
                     /\ fs'[p] = Original
                     /\ HasLine(ledger', p)
                /\ what \in {"ok", "ok_warned"} =>
                     /\ fs'[p] # NoFile
                     /\ fs'[p].gen > 0
                     /\ fs'[p].whole

\* C14, as claimed: a candidate counted as failed (encode failure or replace
\* failure) has its original file with its content of before the run and its
\* ledger line untouched, and a candidate counted ok has the complete new
\* encoding at its path: no replaced file is reported failed, no file that was
\* not replaced is reported ok.
C14_Claimed == [][C14_Step]_vars

\* Whatever comes of the tag-strip step, short of a signal, the run goes on to
\* the replace of the same candidate with its counters and status as they were.
C15_Step ==
    \A r \in Runs :
        (pc[r] = "strip" /\ pc'[r] # "strip" /\ how'[r] \notin {"sigint", "sigkill"}) =>
            /\ pc'[r] = "replace"
            /\ how'[r] = "running"
            /\ fail'[r] = fail[r]
            /\ rc'[r] = rc[r]

\* C15, as claimed: no failure of the tag-strip step (a non-zero exit of the
\* tool, or the tool not being invocable at all) is fatal: the replace still
\* runs for that candidate, the remaining candidates are still processed, and
\* the fail count and the exit status are unaffected.
C15_Claimed == [][C15_Step]_vars

\* C16, as claimed: a candidate outside the media root is skipped before any
\* encoder invocation (its file is never re-encoded or replaced, no temp file
\* appears beside it, its ledger line stays), and it counts as a failed
\* candidate in the run's summary and exit status.
C16_Claimed ==
    \A r \in Runs :
        /\ \A i \in Skipped(r) :
             /\ fs[realpath(PathAt(r, i))] = Original
             /\ fs[out_tmp(PathAt(r, i))] = NoFile
             /\ fs[alt_tmp(PathAt(r, i))] = NoFile
             /\ HasLine(ledger, PathAt(r, i))
        /\ (AtSummary(r) /\ ~DryRun /\ Skipped(r) # {}) =>
             /\ fail[r] >= Cardinality(Skipped(r))
             /\ rc[r] = 3

\* What a call that read these lines writes back for path p: every line but
\* the records of p, complete and in order.
Compacted(read, p) == Flatten(SelectSeq(read, LAMBDA l : ~(IsRecord(l) /\ PathOf(l) = p)))

\* A run inside remove_from_processed_list.
InUpdate(r) == pc[r] \in {"rm_read", "rm_write", "rm_replace"}

\* The bytes under the ledger's name change only in the rename that ends a
\* call, and then to the complete compaction of what that call read; a step of
\* a call that fails (it logs its warning) leaves them as they were.
C17_Step ==
    /\ ledger' # ledger =>
          \E r \in Runs :
              /\ pc[r] = "rm_replace"
              /\ pc'[r] = "tally"
              /\ ~warned'[r]
              /\ ledger' = Compacted(lines[r], cur(r).path)
    /\ \A r \in Runs :
          (InUpdate(r) /\ warned'[r]) => ledger' = ledger

\* C17: at every step of remove_from_processed_list, also when it fails with
\* an I/O error part-way, a reader of the ledger path sees the complete ledger
\* of before the call or the complete compacted ledger, never a partial one;
\* when the call fails the ledger's content is unchanged.
C17_Atomic == [][C17_Step]_vars

\* C17's case: a call failed while writing, leaving a temp file shorter than
\* the compacted ledger, and the ledger still holds the record to remove.
C17_Witness ==
    \E r \in Runs :
        /\ pc[r] = "tally"
        /\ warned[r]
        /\ out[r] # Absent
        /\ ledger # Absent
        /\ HasLine(ledger, cur(r).path)
        /\ Len(readlines(ledger)) = 3
        /\ Len(out[r]) < Len(Compacted(readlines(decode(ledger)), cur(r).path))

\* The step in which a ledger update fails ends the call and nothing else: the
\* media tree, with the replaced file, the counters and the status stay; and
\* the step after it counts the candidate ok and returns to the loop.
C18_Step ==
    \A r \in Runs :
        /\ (InUpdate(r) /\ warned'[r]) =>
              /\ pc'[r] = "tally"
              /\ fs' = fs
              /\ fs[cur(r).path].gen > 0
              /\ how'[r] = "running"
              /\ rc'[r] = rc[r]
              /\ ok'[r] = ok[r]
              /\ fail'[r] = fail[r]
        /\ (pc[r] = "tally" /\ warned[r] /\ pc'[r] # "tally"
                /\ how'[r] \notin {"sigint", "sigkill"}) =>
              /\ pc'[r] = "for"
              /\ ok'[r] = ok[r] + 1
              /\ fail'[r] = fail[r]
              /\ fs' = fs
              /\ rc'[r] = rc[r]

\* A run that returns has processed its whole batch and its status is 3 when
\* a candidate failed to encode or to be replaced, and 0 otherwise, however
\* many ledger updates failed.
C18_Status ==
    \A r \in Runs :
        (AtSummary(r) /\ ~DryRun) =>
            /\ Len(outcome[r]) = Len(candidates[r])
            /\ rc[r] = IF FailedOnes(r) = {} THEN 0 ELSE 3

\* C18: when removing a candidate's line from the ledger fails after a
\* successful replace, the failure does not propagate: the replaced file keeps
\* its new content, the candidate is counted ok, the batch goes on with the
\* next candidate, and the exit status is not changed by it.
C18_BestEffort == [](C18_Status) /\ [][C18_Step]_vars

\* C18's case: the ledger update of the first candidate failed, its file is
\* replaced and its line still there, the second candidate was processed
\* after it, and the run returned 0 with both counted ok.
C18_Witness ==
    \E r \in Runs :
        /\ AtSummary(r)
        /\ outcome[r] = <<"ok_warned", "ok">>
        /\ ok[r] = 2
        /\ rc[r] = 0
        /\ fs[PathAt(r, 1)].gen > 0
        /\ fs[PathAt(r, 1)].whole
        /\ HasLine(ledger, PathAt(r, 1))

\* No process that has ended holds the lock or has the lock file open.
C19_Released ==
    \A p \in Procs :
        apc[p] \in {"exited", "killed"} => ~flocked[p] /\ lock_file[p] # "open"

\* A process that tries the lock when every other process has ended gets it.
C19_Acquires ==
    \A p \in Procs :
        (/\ apc[p] = "flock"
         /\ \A q \in Procs \ {p} : ~ARunning(q)
         /\ apc'[p] \notin {"flock", "killed"}
         /\ arc'[p] # 130)
            => apc'[p] = "wait_for_plex" /\ flocked'[p]

\* C19: a run that acquired the lock releases it on every exit path (normal
\* return, early return with an error code, uncaught fault, interrupt), so the
\* lock is never left held by a run that has ended, and a run started after
\* the holder has exited always acquires it.
C19_Release == [](C19_Released) /\ [][C19_Acquires]_vars

\* C19's case: a process that held the lock left main() early with an error
\* code (Plex did not come online) and has exited, and the process started
\* after it holds the lock.
C19_Witness ==
    \E p, q \in Procs :
        /\ apc[p] = "exited"
        /\ arc[p] = 2
        /\ lock_file[p] = "closed"
        /\ apc[q] = "tracks"
        /\ flocked[q]
        /\ astarted = 2

\* C20, as claimed: within one run no file is encoded and replaced more than
\* once, whatever the ledger holds, records of one path over the threshold
\* several times included.  (In the first run over the tree, whose files have
\* gone through no encoding.)
C20_Claimed ==
    started = 1 => \A p \in MediaPaths : fs[p] # NoFile => fs[p].gen <= 1

\* The rename that ends a successful ledger update for path p keeps every
\* record of another path that the ledger holds at that moment, the records
\* appended since the call read the ledger included.
C21_Step ==
    \A r \in Runs :
        (pc[r] = "rm_replace" /\ pc'[r] = "tally" /\ ~warned'[r]) =>
            \A q \in LinePaths(ledger) :
                q # cur(r).path => HasLine(ledger', q)

\* C21, as claimed: when the external producer appends a record to the ledger
\* at any point while remove_from_processed_list(p) is running, in particular
\* between its read of the ledger and its rename, the appended record, whose
\* path differs from p, is still in the ledger after the compaction.
C21_Claimed == [][C21_Step]_vars

\* C22, as claimed: with a batch cap of one or more and the pipeline re-run
\* again and again on the same ledger, every candidate whose encode and
\* replace steps succeed (its file is there) is eventually remediated and
\* removed from the ledger, also when candidates ahead of it in the ledger
\* fail on every run or are skipped as outside the media root.
C22_Claimed ==
    \A p \in {PathA, PathB} :
        (HasLine(ledger, p) /\ fs[p] # NoFile) ~> ~HasLine(ledger, p)

====
